---- MODULE Spec2Model ----
(***************************************************************************)
(* Model of src/index.tsx: a React / react-three-fiber scene whose         *)
(* formation morphs between a scattered cloud and an assembled tree.       *)
(*                                                                         *)
(* Numbers are fixed point.  The morph value uses S units for 1.0, hand    *)
(* coordinates use H units for 1.0, angles use PI units for pi radians,    *)
(* and time is counted in ticks of a quarter of a time unit.  Every        *)
(* product is rounded to the nearest unit, as a floating point product is  *)
(* rounded to the nearest representable number.                            *)
(*                                                                         *)
(* Math.random is a generator with hidden state.  rng counts the memo runs  *)
(* that have drawn from it (modulo RngPeriod), and a drawn Point3 is       *)
(* identified by the run that drew it and its place in that run.           *)
(***************************************************************************)
EXTENDS Integers, Sequences, FiniteSets, TLC

\* ---------------------------------------------------------------- bounds
MaxFrames == 2
MaxLoops == 2
NumFoliage == 1
NumOrnament == 1
MaxDelta == 1
MaxStep == 4
Grid == 4
RngPeriod == 2

\* ------------------------------------------------------- numeric scales
S == 10000
H == 1000
PI == 3600
TicksPerUnit == 4

VARIABLES
  isTree,      \* App: committed React state (the target flag)
  pending,     \* App: what the updates enqueued by setIsTree and not yet
               \* rendered reduce to: <<>> if none, else <<v>> for the last
  mounted,     \* App: the component tree is mounted
  value,       \* syncData.value (morph progress)
  handX,       \* syncData.handX
  handY,       \* syncData.handY
  hasHand,     \* syncData.hasHand
  pc,          \* GestureController.setup: the await it is suspended at
  video,       \* GestureController: the <video> element
  stream,      \* GestureController: the capture stream (video.srcObject)
  rafPending,  \* GestureController: frameId names a scheduled loop callback
  videoFresh,  \* GestureController: video.currentTime !== lastVideoTime
  errorLogged, \* GestureController: the catch block ran
  autoRotate,  \* OrbitControls.autoRotate
  azimuth,     \* OrbitControls azimuthal angle
  polar,       \* OrbitControls polar angle
  foliage,     \* Foliage: memoised endpoints
  ornaments,   \* MorphingInstances: memoised data of each ornament group
  topper,      \* TopStar: memoised endpoints
  rng,         \* Math.random: memo runs that have drawn from it
  value0,      \* history: the morph value the run started from
  stepDelta,   \* history: the fixed deltaTime of a damping run
  elapsed,     \* history: deltaTime accumulated by a timed run
  frames,      \* history: Frame Updates run
  loops,       \* history: detection loop iterations run
  lastLabel,   \* history: what the last loop iteration saw
  lastOp       \* history: the last operation

appVars == <<isTree, pending, mounted>>
syncVars == <<value, handX, handY, hasHand>>
gestureVars == <<pc, video, stream, rafPending, videoFresh, errorLogged>>
cameraVars == <<autoRotate, azimuth, polar>>
registryVars == <<foliage, ornaments, topper, rng>>
historyVars == <<value0, stepDelta, elapsed, frames, loops, lastLabel, lastOp>>
vars == <<appVars, syncVars, gestureVars, cameraVars, registryVars, historyVars>>

\* ------------------------------------------------------------ arithmetic
\* n / d rounded to the nearest integer (d > 0)
RoundDiv(n, d) == (2 * n + d) \div (2 * d)

Min(a, b) == IF a < b THEN a ELSE b
Max(a, b) == IF a < b THEN b ELSE a
Abs(a) == IF a < 0 THEN -a ELSE a
Last(s) == s[Len(s)]

\* THREE.MathUtils.lerp(x, y, t) = (1 - t) * x + t * y, with t = tn / td
lerp(x, y, tn, td) == RoundDiv((td - tn) * x + tn * y, td)

\* Math.exp(-1.5 * dt) in units of S, dt in ticks of 1/4 time unit
ExpDecay(dt) ==
  CASE dt = -2 -> 21170 [] dt = -1 -> 14550 [] dt = 0 -> 10000
    [] dt = 1 -> 6873 [] dt = 2 -> 4724 [] dt = 3 -> 3247 [] dt = 4 -> 2231
    [] dt = 5 -> 1534 [] dt = 6 -> 1054 [] dt = 7 -> 724 [] dt = 8 -> 498
    [] dt = 9 -> 342 [] dt = 10 -> 235 [] dt = 11 -> 162 [] dt = 12 -> 111
    [] dt > 12 -> 0

\* variant with half the blend factor: t = (1 - exp(...)) / 2
dampHalfFactor(x, y, dt) == lerp(x, y, (S - ExpDecay(dt)) \div 2, S)

\* variant with the sign of the exponential term wrong: t = 1 + exp(...)
dampSignError(x, y, dt) == lerp(x, y, S + ExpDecay(dt), S)

\* THREE.MathUtils.damp(x, y, 1.5, dt) = lerp(x, y, 1 - exp(-1.5 * dt))
damp(x, y, dt) == lerp(x, y, S - ExpDecay(dt), S)

\* const target = isTree ? 1 : 0
MorphTarget(tree) == IF tree THEN S ELSE 0

\* ---------------------------------------------------- Camera Mapper
\* (syncData.handX - 0.5) * Math.PI
targetAzimuth(hx) == RoundDiv((2 * hx - H) * PI, 2 * H)

\* minPolarAngle = Math.PI / 4, maxPolarAngle = Math.PI / 1.5
polarMin == PI \div 4
polarMax == (2 * PI) \div 3

\* variant that scales by the upper limit instead of the width of the range
targetPolarNoOffset(hy) == polarMin + RoundDiv(hy * polarMax, H)

\* Math.PI/4 + syncData.handY * (Math.PI/1.5 - Math.PI/4)
targetPolar(hy) == polarMin + RoundDiv(hy * (polarMax - polarMin), H)

\* THREE.MathUtils.lerp(current, target, 0.05)
Blend(cur, tgt) == lerp(cur, tgt, 5, 100)

\* edge-triggered variant: the flag is only cleared on a hand, never restored
AutoRotateEdge(hand, tree, cur) == IF hand THEN FALSE ELSE cur

\* controlsRef.current.autoRotate after the Frame Update
NextAutoRotate(hand, tree, cur) == IF hand THEN FALSE ELSE tree

\* OrbitControls auto-rotation per update(): 2*pi/60/60 * autoRotateSpeed
\* with autoRotateSpeed = 0.5, i.e. pi / 3600
AutoRotateStep == PI \div 3600

\* azimuth kept in (-PI, PI]
WrapAngle(a) == IF a > PI THEN a - 2 * PI ELSE IF a <= -PI THEN a + 2 * PI ELSE a

\* controlsRef.current.update(): auto-rotate, then clamp the polar angle
UpdatedAzimuth(az, rot) == IF rot THEN WrapAngle(az - AutoRotateStep) ELSE az
ClampPolar(p) == Max(polarMin, Min(polarMax, p))

\* ------------------------------------------------- Formation Registry
\* the ornament groups; "gold" stands for every group whose getTreePos draws
\* a random point (gold, gems, the three kinds of gift)
OrnamentGroups == {"pearl", "gold"}

\* a Point3 built from Math.random draws in memo run r
Draw(r, who, i, end) == [run |-> r, group |-> who, item |-> i, endpoint |-> end]

\* getSpiralPos(i, count, h, r): a deterministic point, not a draw
getSpiralPos(i) == [run |-> -1, group |-> "pearl", item |-> i, endpoint |-> "tree"]

\* Foliage useMemo([]): per point, pointInCone then randomInSphere
GenFoliage(r) ==
  [i \in 1..NumFoliage |->
     [treePos |-> Draw(r, "foliage", i, "tree"),
      scatterPos |-> Draw(r, "foliage", i, "scatter")]]

\* MorphingInstances useMemo: per item, getTreePos(i) then randomInSphere
GenGroup(g, r) ==
  [i \in 1..NumOrnament |->
     [treePos |-> IF g = "pearl" THEN getSpiralPos(i) ELSE Draw(r, g, i, "tree"),
      scatterPos |-> Draw(r, g, i, "scatter")]]

GenOrnaments(r) == [g \in OrnamentGroups |-> GenGroup(g, r)]

\* TopStar useMemo([]): startPos random, endPos = (0, TREE_HEIGHT/2 + 0.5, 0)
GenTopper(r) ==
  [startPos |-> Draw(r, "topper", 1, "scatter"),
   endPos |-> [run |-> -1, group |-> "topper", item |-> 1, endpoint |-> "tree"]]

\* A re-render of App with a changed isTree re-renders Scene and Ornaments.
\* Ornaments passes freshly created getTreePos closures, so the dependency
\* list [count, scale, getTreePos] of every MorphingInstances memo differs
\* and its data is generated again.  Foliage and TopStar memoise with [].
Rerender(orn, r) == <<GenOrnaments((r + 1) % RngPeriod), (r + 1) % RngPeriod>>

\* ------------------------------------------------------ Gesture Bridge
Labels == {"Open_Palm", "Closed_Fist", "Victory"}

\* landmarks[9] of the detected hand
LandmarkPoints == {[x |-> 0, y |-> H], [x |-> H, y |-> H \div 4]}

\* what recognizeForVideo returns: gestures.length, landmarks.length, the
\* category name of gestures[0][0] and landmarks[0][9]
NoResult == [gestures |-> 0, landmarks |-> 0, label |-> "Victory", x |-> 0, y |-> 0]

Results ==
  {[gestures |-> 1, landmarks |-> 1, label |-> l, x |-> p.x, y |-> p.y] :
     l \in Labels, p \in LandmarkPoints}
  \cup {[NoResult EXCEPT !.gestures = c[1], !.landmarks = c[2]] :
          c \in {<<0, 0>>, <<1, 0>>, <<0, 1>>}}

HandDetected(res) == res.gestures > 0 /\ res.landmarks > 0

\* variant with the two labels swapped
GestureUpdatesSwapped(label) ==
  IF label = "Open_Palm" THEN <<TRUE>>
  ELSE IF label = "Closed_Fist" THEN <<FALSE>> ELSE <<>>

\* the setTreeState calls of one result: the updates it enqueues
GestureUpdates(label) ==
  IF label = "Open_Palm" THEN <<FALSE>>
  ELSE IF label = "Closed_Fist" THEN <<TRUE>> ELSE <<>>

\* setIsTree(v) appends to React's update queue.  Every update is a plain
\* value, so a render reduces the queue to its last update.
Enqueue(queue, updates) == IF updates = <<>> THEN queue ELSE updates

\* variant that snaps the hand position back to the centre on a lost hand
SampleRecentre(res, hx, hy) ==
  IF HandDetected(res)
  THEN [hasHand |-> TRUE,
        handX |-> lerp(hx, H - res.x, 1, 10),
        handY |-> lerp(hy, res.y, 1, 10)]
  ELSE [hasHand |-> FALSE, handX |-> H \div 2, handY |-> H \div 2]

\* the writes of one result to syncData: X mirrored, both low-pass filtered
Sample(res, hx, hy) ==
  IF HandDetected(res)
  THEN [hasHand |-> TRUE,
        handX |-> lerp(hx, H - res.x, 1, 10),
        handY |-> lerp(hy, res.y, 1, 10)]
  ELSE [hasHand |-> FALSE, handX |-> hx, handY |-> hy]

\* one run of loop(): fresh is video.currentTime !== lastVideoTime
LoopIteration(fresh, res) ==
  /\ loops' = loops + 1
  /\ IF fresh
     THEN /\ hasHand' = Sample(res, handX, handY).hasHand
          /\ handX' = Sample(res, handX, handY).handX
          /\ handY' = Sample(res, handX, handY).handY
          /\ pending' = IF HandDetected(res)
                        THEN Enqueue(pending, GestureUpdates(res.label))
                        ELSE pending
          /\ lastLabel' = IF HandDetected(res) THEN res.label ELSE "NoHand"
     ELSE /\ UNCHANGED <<hasHand, handX, handY, pending>>
          /\ lastLabel' = "stale"
  /\ videoFresh' = FALSE
  /\ rafPending' = TRUE

\* variant that swallows the rejection and carries on with the next step
OnRejectContinue(step) ==
  CASE step = "vision" -> "recognizer"
    [] step = "recognizer" -> "camera"
    [] step = "camera" -> "metadata"

\* a rejected await leaves the try block: setup ends in the catch
OnReject(step) == "failed"

OnResolve(step) ==
  CASE step = "vision" -> "recognizer"
    [] step = "recognizer" -> "camera"
    [] step = "camera" -> "metadata"

\* ------------------------------------------------------------- Init
\* App mounted: isTree = false, syncData = {0, 0.5, 0.5, false}; the memos
\* of Foliage, of the ornament groups and of TopStar have run, in render
\* order; the camera sits at [0, 0, 20]; setup() awaits the vision files.
InitWith(v, tree, d) ==
  /\ isTree = tree /\ pending = <<>> /\ mounted = TRUE
  /\ value = v /\ handX = H \div 2 /\ handY = H \div 2 /\ hasHand = FALSE
  /\ pc = "vision" /\ video = "none" /\ stream = "none"
  /\ rafPending = FALSE /\ videoFresh = TRUE /\ errorLogged = FALSE
  /\ autoRotate = tree /\ azimuth = 0 /\ polar = PI \div 2
  /\ foliage = GenFoliage(0)
  /\ ornaments = GenOrnaments(0)
  /\ topper = GenTopper(0)
  /\ rng = 0
  /\ value0 = v /\ stepDelta = d /\ elapsed = 0 /\ frames = 0 /\ loops = 0
  /\ lastLabel = "none" /\ lastOp = "mount"

Init == InitWith(0, FALSE, 0)

\* ------------------------------------------------- GestureController
\* an await of setup() settles: step is the await, ok whether it resolved
SetupStep(step, ok) ==
  /\ pc = step
  /\ pc' = IF ok THEN OnResolve(step) ELSE OnReject(step)
  /\ errorLogged' = (errorLogged \/ ~ok)
  /\ video' = IF ok /\ step = "recognizer" THEN "attached" ELSE video
  /\ stream' = IF ok /\ step = "camera" THEN "live" ELSE stream
  /\ lastOp' = "setup"
  /\ UNCHANGED <<appVars, syncVars, rafPending, videoFresh, cameraVars,
                 registryVars, value0, stepDelta, elapsed, frames, loops, lastLabel>>

VisionResolved == \E ok \in BOOLEAN : SetupStep("vision", ok)
RecognizerResolved == \E ok \in BOOLEAN : SetupStep("recognizer", ok)
CameraResolved == \E ok \in BOOLEAN : SetupStep("camera", ok)

\* onloadedmetadata: video.play(), then loop() is defined and called once;
\* lastVideoTime is still -1, so this first run always recognises
MetadataLoaded ==
  /\ pc = "metadata" /\ loops < MaxLoops
  /\ pc' = "loop"
  /\ \E res \in Results : LoopIteration(TRUE, res)
  /\ lastOp' = "loop"
  /\ UNCHANGED <<isTree, mounted, value, video, stream, errorLogged,
                 cameraVars, registryVars, value0, stepDelta, elapsed, frames>>

\* the requestAnimationFrame callback registered by loop()
LoopTick ==
  /\ pc = "loop" /\ rafPending /\ loops < MaxLoops
  /\ \/ videoFresh /\ \E res \in Results : LoopIteration(TRUE, res)
     \/ ~videoFresh /\ LoopIteration(FALSE, NoResult)
  /\ lastOp' = "loop"
  /\ UNCHANGED <<isTree, mounted, value, pc, video, stream, errorLogged,
                 cameraVars, registryVars, value0, stepDelta, elapsed, frames>>

\* the capture stream delivers a new video frame
VideoAdvance ==
  /\ pc = "loop" /\ stream = "live" /\ ~videoFresh
  /\ videoFresh' = TRUE
  /\ lastOp' = "video"
  /\ UNCHANGED <<appVars, syncVars, pc, video, stream, rafPending, errorLogged,
                 cameraVars, registryVars, value0, stepDelta, elapsed, frames, loops,
                 lastLabel>>

\* the effect's cleanup: cancelAnimationFrame(frameId); the tracks are
\* stopped and the element removed only if video and video.srcObject exist
Teardown ==
  /\ mounted
  /\ mounted' = FALSE
  /\ rafPending' = FALSE
  /\ IF video = "attached" /\ stream # "none"
     THEN stream' = "stopped" /\ video' = "removed"
     ELSE UNCHANGED <<stream, video>>
  /\ lastOp' = "teardown"
  /\ UNCHANGED <<isTree, pending, syncVars, pc, videoFresh, errorLogged,
                 cameraVars, registryVars, value0, stepDelta, elapsed, frames, loops,
                 lastLabel>>

\* ---------------------------------------------------------------- App
\* React renders App with the new state.  If isTree changed, Scene and its
\* children render again: OrbitControls gets autoRotate={isTree} and the
\* ornament groups run their memos.
Render(new) ==
  /\ isTree' = new
  /\ pending' = <<>>
  /\ IF new # isTree
     THEN /\ autoRotate' = new
          /\ ornaments' = Rerender(ornaments, rng)[1]
          /\ rng' = Rerender(ornaments, rng)[2]
     ELSE UNCHANGED <<autoRotate, ornaments, rng>>

\* Overlay button: toggleState = () => setIsTree(!isTree).  A click is a
\* discrete event: React renders it synchronously, and an update queued
\* before it by a gesture is rebased under it, so the toggled value stands.
Toggle ==
  /\ mounted
  /\ Render(~isTree)
  /\ lastOp' = "toggle"
  /\ UNCHANGED <<mounted, syncVars, gestureVars, azimuth, polar, foliage,
                 topper, value0, stepDelta, elapsed, frames, loops, lastLabel>>

\* React's scheduler renders the updates setTreeState enqueued
Commit ==
  /\ mounted /\ pending # <<>>
  /\ Render(Last(pending))
  /\ lastOp' = "commit"
  /\ UNCHANGED <<mounted, syncVars, gestureVars, azimuth, polar, foliage,
                 topper, value0, stepDelta, elapsed, frames, loops, lastLabel>>

\* -------------------------------------------------------------- Scene
\* Scene's useFrame callback, delta = dt
FrameBody(dt) ==
  /\ value' = damp(value, MorphTarget(isTree), dt)
  /\ autoRotate' = NextAutoRotate(hasHand, isTree, autoRotate)
  /\ IF hasHand
     THEN /\ azimuth' = Blend(azimuth, targetAzimuth(handX))
          /\ polar' = ClampPolar(Blend(polar, targetPolar(handY)))
     ELSE /\ azimuth' = UpdatedAzimuth(azimuth, autoRotate')
          /\ polar' = ClampPolar(polar)

Frame(dt) ==
  /\ mounted /\ frames < MaxFrames
  /\ FrameBody(dt)
  /\ frames' = frames + 1
  /\ lastOp' = "frame"
  /\ UNCHANGED <<appVars, handX, handY, hasHand, gestureVars, registryVars,
                 value0, stepDelta, elapsed, loops, lastLabel>>

\* deltaTime as the render clock supplies it: positive ticks
Deltas == 1..MaxDelta

FrameUpdate == \E dt \in Deltas : Frame(dt)

Next ==
  \/ VisionResolved
  \/ RecognizerResolved
  \/ CameraResolved
  \/ MetadataLoaded
  \/ LoopTick
  \/ VideoAdvance
  \/ Teardown
  \/ Toggle
  \/ Commit
  \/ FrameUpdate

Spec == Init /\ [][Next]_vars

\* ------------------------------------------- arbitrary deltaTime
\* useFrame hands the callback whatever delta the render loop computed;
\* here it may also be zero or negative
AnyDeltas == -1..MaxDelta

FrameUpdateAny == \E dt \in AnyDeltas : Frame(dt)

NextAny ==
  \/ VisionResolved
  \/ RecognizerResolved
  \/ CameraResolved
  \/ MetadataLoaded
  \/ LoopTick
  \/ VideoAdvance
  \/ Teardown
  \/ Toggle
  \/ Commit
  \/ FrameUpdateAny

SpecAny == Init /\ [][NextAny]_vars

\* ------------------------------------- damping runs with a fixed step
\* a run of Frame Updates with one target and one positive deltaTime, from
\* any morph value on a grid over [0, 1]
Value0s == {(k * S) \div Grid : k \in 0..Grid}
Steps == 1..MaxStep

InitDamp ==
  \E v \in Value0s, tree \in BOOLEAN, d \in Steps : InitWith(v, tree, d)

FrameFixed ==
  /\ mounted
  /\ FrameBody(stepDelta)
  /\ lastOp' = "frame"
  /\ UNCHANGED <<appVars, handX, handY, hasHand, gestureVars, registryVars,
                 value0, stepDelta, elapsed, frames, loops, lastLabel>>

NextDamp == FrameFixed

\* the render loop calls the frame callback on every display frame
SpecDamp == InitDamp /\ [][NextDamp]_vars /\ WF_vars(NextDamp)

\* ------------------------------------------------------------ claims
Target == MorphTarget(isTree)
Between(x, a, b) == Min(a, b) <= x /\ x <= Max(a, b)
Centre == H \div 2

\* the target the application has been asked for: the queued update if
\* there is one, else the committed state
RequestedTarget == IF pending = <<>> THEN isTree ELSE pending[1]

\* C1: with a fixed target and a fixed positive deltaTime, from any start
\* value in [0, 1], every Frame Update leaves the morph value between its
\* old value and the target (monotone, no overshoot), the value never
\* leaves the interval spanned by the start value and the target, and it
\* ends within one unit of resolution of the target for good.
C1_DampingConverges ==
  /\ [](Between(value, value0, Target))
  /\ [][Between(value', value, Target)]_vars
  /\ <>[](Abs(value - Target) <= 1)

C1_Witness ==
  /\ lastOp = "frame" /\ value0 = 0 /\ isTree /\ stepDelta = 1
  /\ value > S \div 2 /\ value < S - 1

\* C2: no operation changes the endpoints of any element of any group.
C2_EndpointsFixed ==
  [][foliage' = foliage /\ ornaments' = ornaments /\ topper' = topper]_vars

\* C3: once the scene is torn down, no detection loop iteration runs, the
\* gesture sample and the target are not written, and the capture stream
\* is not live.
C3_TeardownStops ==
  [][~mounted =>
       /\ loops' = loops
       /\ hasHand' = hasHand /\ handX' = handX /\ handY' = handY
       /\ pending' = pending /\ isTree' = isTree
       /\ stream' # "live"]_vars

\* C4: a Frame Update that runs after a closed-fist result has been
\* processed runs with target 1: it never damps toward 0.
C4_FistNextFrame ==
  [][(frames' # frames /\ pending = <<TRUE>>) => (isTree /\ value' >= value)]_vars

\* C5: whatever deltaTime a Frame Update is given, the morph value stays
\* inside [0, 1] and does not move away from the target.
C5_DeltaClamped ==
  [][frames' # frames =>
       /\ 0 <= value' /\ value' <= S
       /\ Abs(value' - Target) <= Abs(value - Target)]_vars

\* C6: a loop iteration that sees a hand labelled Open_Palm asks for target
\* 0, one labelled Closed_Fist asks for target 1, and any other label, no
\* hand, or no new video frame leaves the queue and the target alone.
C6_LabelMapping ==
  [][loops' # loops =>
       /\ isTree' = isTree
       /\ lastLabel' = "Open_Palm" => pending' = <<FALSE>>
       /\ lastLabel' = "Closed_Fist" => pending' = <<TRUE>>
       /\ lastLabel' \notin {"Open_Palm", "Closed_Fist"} => pending' = pending]_vars

C6_Witness ==
  lastOp = "loop" /\ lastLabel = "Open_Palm" /\ isTree /\ RequestedTarget = FALSE

\* C7: a result without a hand clears hasHand and leaves handX and handY as
\* they were.
C7_NoHandFreezes ==
  [][(loops' # loops /\ lastLabel' = "NoHand") =>
       (hasHand' = FALSE /\ handX' = handX /\ handY' = handY)]_vars

C7_Witness ==
  lastOp = "loop" /\ lastLabel = "NoHand" /\ ~hasHand /\ handX # Centre

\* C8: once setup has failed, the gesture sample keeps its initial values,
\* the Frame Update stays enabled while the scene is mounted and damps the
\* morph value toward the committed target, and the toggle flips the target.
C8_SetupFailure ==
  [][errorLogged' =>
       /\ ~hasHand' /\ handX' = Centre /\ handY' = Centre
       /\ (mounted' /\ frames' < MaxFrames) => ENABLED FrameUpdate
       /\ frames' # frames =>
            \E dt \in Deltas : value' = damp(value, MorphTarget(isTree), dt)
       /\ (lastOp' = "toggle" /\ mounted) => isTree' = ~isTree]_vars

C8_Witness ==
  errorLogged /\ lastOp = "frame" /\ isTree /\ value > 0 /\ frames = MaxFrames

C10_AtomicSnapshot ==
  [][frames' # frames => (pending = <<>> \/ pending = <<isTree>>)]_vars

\* --------------------------------------- camera runs with a held hand
\* the detection loop is running and has left a hand at any position of a
\* grid over [0, 1] x [0, 1]; Frame Updates then steer the camera
HandGrid == {(k * H) \div Grid : k \in 0..Grid}

InitCamera ==
  /\ isTree = FALSE /\ pending = <<>> /\ mounted = TRUE
  /\ value = 0 /\ hasHand = TRUE
  /\ handX \in HandGrid /\ handY \in HandGrid
  /\ pc = "loop" /\ video = "attached" /\ stream = "live"
  /\ rafPending = TRUE /\ videoFresh = FALSE /\ errorLogged = FALSE
  /\ autoRotate = FALSE /\ azimuth = 0 /\ polar = PI \div 2
  /\ foliage = GenFoliage(0)
  /\ ornaments = GenOrnaments(0)
  /\ topper = GenTopper(0)
  /\ rng = 0
  /\ value0 = 0 /\ stepDelta = 1 /\ elapsed = 0 /\ frames = 0 /\ loops = 1
  /\ lastLabel = "Victory" /\ lastOp = "loop"

NextCamera == FrameFixed

SpecCamera == InitCamera /\ [][NextCamera]_vars

\* C11: the azimuth target is (handX - 0.5) * pi, so -pi/2, 0 and +pi/2 for
\* handX 0, 0.5 and 1; the polar target lies within [polarMin, polarMax] for
\* every handY in [0, 1], at polarMin for handY 0 and at polarMax for 1.
C11_CameraTargets ==
  /\ Abs(2 * H * targetAzimuth(handX) - (2 * handX - H) * PI) <= H
  /\ handX = 0 => targetAzimuth(handX) = -(PI \div 2)
  /\ handX = H \div 2 => targetAzimuth(handX) = 0
  /\ handX = H => targetAzimuth(handX) = PI \div 2
  /\ polarMin <= targetPolar(handY) /\ targetPolar(handY) <= polarMax
  /\ handY = 0 => targetPolar(handY) = polarMin
  /\ handY = H => targetPolar(handY) = polarMax

C11_Witness ==
  /\ lastOp = "frame" /\ handX = 0 /\ handY = H
  /\ azimuth < -(PI \div 4) /\ polar > PI \div 2

\* ------------------------------------------------------- timed runs
\* the toggle switches the scattered formation (value 0) to assembled, and
\* Frame Updates follow whose deltaTime adds up to three time units and
\* beyond, split into positive steps in every possible way; the run is
\* followed for one more time unit
TimedTicks == 3 * TicksPerUnit
TimedHorizon == TimedTicks + TicksPerUnit

ToggleAssembled == ~isTree /\ elapsed = 0 /\ Toggle

FrameTimed ==
  /\ mounted /\ isTree
  /\ \E dt \in 1..Min(TimedTicks, TimedHorizon - elapsed) :
       /\ FrameBody(dt)
       /\ elapsed' = elapsed + dt
  /\ lastOp' = "frame"
  /\ UNCHANGED <<appVars, handX, handY, hasHand, gestureVars, registryVars,
                 value0, stepDelta, frames, loops, lastLabel>>

NextTimed ==
  \/ ToggleAssembled
  \/ FrameTimed

SpecTimed == Init /\ [][NextTimed]_vars

\* C12 as stated: once the deltaTime has accumulated to 3 time units the
\* morph value is at least 0.99.
C12_WithinOnePercent == elapsed >= TimedTicks => 100 * value >= 99 * S

\* C12 as amended: once the deltaTime has accumulated to 3 time units the
\* morph value is at least 0.988, whatever the split.
C12_WithinOnePointTwoPercent == elapsed >= TimedTicks => 1000 * value >= 988 * S

C12_Witness ==
  /\ lastOp = "frame" /\ elapsed = TimedTicks /\ frames = 0
  /\ 1000 * value >= 988 * S /\ 100 * value < 99 * S

====
